---- MODULE Spec2Model ----
(***************************************************************************)
(* compute_allocation of src/cal_tax.py: the IT-10BB expense estimator.    *)
(*                                                                         *)
(* Number representation.  The program computes with Python floats.  The   *)
(* model computes with exact rationals carried as integers over a fixed    *)
(* denominator:                                                            *)
(*   - a weight w is the integer w * WeightScale (every product the code   *)
(*     forms is a whole number at that scale, see WholeProducts);          *)
(*   - total_expense is a whole number of 1/Unit currency units, Unit a    *)
(*     power of two, as every float is a dyadic rational;                  *)
(*   - a raw percentage is RawPctNum / TotalWeight, a raw amount is        *)
(*     RawAmtNum / AmtDen.                                                 *)
(* Floats and rationals order two remainders the same way whenever the     *)
(* exact remainders differ (they differ by far more than a rounding        *)
(* error at these magnitudes).  Where the exact remainders are equal the   *)
(* floats are equal only if they were computed exactly or from the same    *)
(* operands; otherwise the rounding errors decide the order, and the model *)
(* leaves that order open (PctClass, AmtClass, SortsBefore).               *)
(* int() of a float equals the integer part of the exact value unless the  *)
(* exact value is a whole number n that the float misses from below; the   *)
(* float's integer part is then n - 1 and its remainder the greatest of    *)
(* all, so the distribution loop hands the point back and the returned     *)
(* values are those of the exact computation.                              *)
(***************************************************************************)
EXTENDS Integers, Sequences, FiniteSets, TLC

\* ------------------------------------------------------------------ bounds
MaxFamily == 4
FracBits == 2
MaxTotalUnits == 23
MaxDelta == 3

\* ------------------------------------------------------------- categories
\* The 8 keys of the weights dict, numbered in declaration (insertion) order.
Categories == 1..8
Food == 1
Accommodation == 2
Electricity == 3
GasWater == 4
PhoneInternet == 5
HomeSupport == 6
Education == 7
Festival == 8

\* The code points of the first two characters of each key ("Fo", "Ac", "El",
\* "Ga", "Ph", "Ho", "Ed", "Fe"): no two keys agree on both, so they decide
\* every comparison of two keys.
KeyCodes ==
    << <<70, 111>>, <<65, 99>>, <<69, 108>>, <<71, 97>>,
       <<80, 104>>, <<72, 111>>, <<69, 100>>, <<70, 101>> >>

\* Python's str comparison: lexicographic by code point.
KeyGreater(a, b) ==
    \/ KeyCodes[a][1] > KeyCodes[b][1]
    \/ KeyCodes[a][1] = KeyCodes[b][1] /\ KeyCodes[a][2] > KeyCodes[b][2]

\* Weights are carried as integers: weight * WeightScale.
WeightScale == 8 * 10000

\* The initial literals of the weights dict, in tenths.
BaseTenths == <<300, 280, 25, 30, 35, 70, 100, 60>>

BaseWeights == [k \in Categories |-> BaseTenths[k] * (WeightScale \div 10)]

\* --------------------------------------------------------------- location
Upper == <<"A","B","C","D","E","F","G","H","I","J","K","L","M",
           "N","O","P","Q","R","S","T","U","V","W","X","Y","Z">>
Lower == <<"a","b","c","d","e","f","g","h","i","j","k","l","m",
           "n","o","p","q","r","s","t","u","v","w","x","y","z">>

LowerChar(c) ==
    IF \E i \in 1..26 : Upper[i] = c
    THEN Lower[CHOOSE i \in 1..26 : Upper[i] = c]
    ELSE c

\* str.lower()
ToLower(s) == [i \in 1..Len(s) |-> LowerChar(s[i])]

IsSpace(c) == c \in {" ", "\t", "\n"}

\* str.strip(): drop the leading and the trailing whitespace.
Strip(s) ==
    LET keep == {i \in 1..Len(s) : ~IsSpace(s[i])}
    IN  IF keep = {} THEN <<>>
        ELSE LET lo == CHOOSE i \in keep : \A j \in keep : i <= j
                 hi == CHOOSE i \in keep : \A j \in keep : j <= i
             IN  SubSeq(s, lo, hi)

MetroNames ==
    { <<"d","h","a","k","a">>,
      <<"d","h","a","k","a","_","c","i","t","y">>,
      <<"c","i","t","y">>,
      <<"b","i","g","_","c","i","t","y">>,
      <<"m","e","t","r","o">> }

IsMetro(location) == ToLower(Strip(location)) \in MetroNames

\* ---------------------------------------------------------------- weights
\* w *= num/100, exact at WeightScale.
Times(w, num) == (w * num) \div 100

MulAt(w, k, num) == [w EXCEPT ![k] = Times(w[k], num)]

NoKids(w, has_kids) ==
    IF ~has_kids THEN [w EXCEPT ![Education] = 0] ELSE w

LocationEffect(w, location) ==
    IF IsMetro(location)
    THEN MulAt(MulAt(MulAt(MulAt(w, Accommodation, 120), Food, 105),
                     PhoneInternet, 105), HomeSupport, 110)
    ELSE MulAt(w, Accommodation, 90)

Max(a, b) == IF a >= b THEN a ELSE b

\* Mutant of ExtraPeople: family_size - 1.
ExtraPeopleOffByOne(family_size) == Max(0, family_size - 1)

ExtraPeople(family_size) == Max(0, family_size - 2)

FamilyEffect(w, family_size, has_kids) ==
    LET extra_people == ExtraPeople(family_size)
    IN  IF extra_people > 0
        THEN LET w1 == MulAt(w, Food, 100 + 5 * extra_people)
             IN  IF has_kids
                 THEN MulAt(w1, Education, 100 + 4 * extra_people)
                 ELSE w1
        ELSE w

OwnHomeEffect(w, own_home) ==
    IF own_home
    THEN MulAt(MulAt(w, Accommodation, 60), HomeSupport, 105)
    ELSE w

StaffEffect(w, home_support_staff) ==
    IF ~home_support_staff THEN MulAt(w, HomeSupport, 40) ELSE w

\* Mutant of ModeEffect: elif mode != 'balanced' in place of
\* elif mode == 'comfortable'.
ModeEffectNotBalanced(w, mode) ==
    IF mode = "conservative"
    THEN MulAt(MulAt(MulAt(w, Festival, 60), HomeSupport, 70), Food, 108)
    ELSE IF mode # "balanced"
    THEN MulAt(MulAt(MulAt(w, Festival, 130), HomeSupport, 120), Food, 105)
    ELSE w

ModeEffect(w, mode) ==
    IF mode = "conservative"
    THEN MulAt(MulAt(MulAt(w, Festival, 60), HomeSupport, 70), Food, 108)
    ELSE IF mode = "comfortable"
    THEN MulAt(MulAt(MulAt(w, Festival, 130), HomeSupport, 120), Food, 105)
    ELSE w

\* Lines 16-59: the weights after every adjustment, from the table b.
DerivedWeights(b, location, family_size, has_kids, own_home, home_support_staff, mode) ==
    ModeEffect(
      StaffEffect(
        OwnHomeEffect(
          FamilyEffect(
            LocationEffect(NoKids(b, has_kids), location),
            family_size, has_kids),
          own_home),
        home_support_staff),
      mode)

\* ------------------------------------------------------------ apportionment
SumValues(f) == f[1] + f[2] + f[3] + f[4] + f[5] + f[6] + f[7] + f[8]

\* Mutant of TotalWeight: the comparison flipped (w < 0).
TotalWeightFlipped(w) == SumValues([k \in Categories |-> IF w[k] < 0 THEN w[k] ELSE 0])

\* Line 62: sum([w for w in weights.values() if w > 0]).
TotalWeight(w) == SumValues([k \in Categories |-> IF w[k] > 0 THEN w[k] ELSE 0])

\* Line 63: raw_percentages[k] is RawPctNum(w, k) / TotalWeight(w).
RawPctNum(w, k) == IF w[k] > 0 THEN 100 * w[k] ELSE 0

\* Mutant of IntPart: round(x) in place of int(x).
IntPartRounded(num, den) == (2 * num + den) \div (2 * den)

\* int(x) of a non-negative x = num/den: the integer part.
IntPart(num, den) == num \div den

\* x - int(x), as a numerator over den.
FracPart(num, den) == num - den * IntPart(num, den)

\* Lines 68-70: the integer percentages before the leftover is distributed.
FloorPct(w) ==
    LET total_weight == TotalWeight(w)
    IN  [k \in Categories |-> IntPart(RawPctNum(w, k), total_weight)]

\* Line 71: the remainders p - ip, numerators over TotalWeight(w).
PctRemainder(w) ==
    LET total_weight == TotalWeight(w)
    IN  [k \in Categories |-> FracPart(RawPctNum(w, k), total_weight)]

\* Which remainders are equal as floats when they are equal as rationals:
\* those of one class.  A raw percentage is computed exactly only when it is
\* the literal 0.0 of a non-positive weight (class 0); every other one carries
\* its own rounding error.
PctClass(w) == [k \in Categories |-> IF w[k] > 0 THEN k ELSE 0]

\* Lines 74-75.
Missing(ip) == 100 - SumValues(ip)

\* Mutant of SortsBefore: sort() without reverse=True.
SortsBeforeAscending(rem, cls, a, b) ==
    \/ rem[a] < rem[b]
    \/ rem[a] = rem[b] /\ cls[a] = cls[b] /\ KeyGreater(b, a)

\* Lines 77 and 98: list.sort(reverse=True) on (remainder, key) tuples puts
\* a before b when a's tuple is the greater: the greater remainder, and among
\* remainders equal as floats the greater key.
SortsBefore(rem, cls, a, b) ==
    \/ rem[a] > rem[b]
    \/ rem[a] = rem[b] /\ cls[a] = cls[b] /\ KeyGreater(a, b)

\* The possible contents of the first n places of the sorted list.  More than
\* 8 places do not exist (the code's remainders[i] raises IndexError).
TopSets(rem, cls, n) ==
    { S \in SUBSET Categories :
        /\ Cardinality(S) = n
        /\ \A a \in S : \A b \in Categories \ S : ~SortsBefore(rem, cls, b, a) }

\* Mutant of Increments: range(n - 1), the last extra unit never handed out.
IncrementsShort(rem, cls, n) ==
    IF n > 0
    THEN { [k \in Categories |-> IF k \in S THEN 1 ELSE 0] : S \in TopSets(rem, cls, n - 1) }
    ELSE { [k \in Categories |-> 0] }

\* Mutant of Increments: remainders[0] in place of remainders[i], every extra
\* unit going to the first entry of the sorted list.
IncrementsAllToFirst(rem, cls, n) ==
    IF n > 0
    THEN { [k \in Categories |-> IF k \in S THEN n ELSE 0] : S \in TopSets(rem, cls, 1) }
    ELSE { [k \in Categories |-> 0] }

\* Lines 76-80 and 97-101: +1 for each of the first n entries of the sorted
\* list when n > 0, nothing otherwise.
Increments(rem, cls, n) ==
    IF n > 0
    THEN { [k \in Categories |-> IF k \in S THEN 1 ELSE 0] : S \in TopSets(rem, cls, n) }
    ELSE { [k \in Categories |-> 0] }

\* ----------------------------------------------------------------- amounts
RECURSIVE Pow2(_)
Pow2(n) == IF n = 0 THEN 1 ELSE 2 * Pow2(n - 1)

\* total_expense is carried as a whole number of 1/Unit.
Unit == Pow2(FracBits)

AmtDen == 100 * Unit

\* Line 88: amt_raw is RawAmtNum / AmtDen.
RawAmtNum(total, ip, k) == total * ip[k]

\* Lines 89-90.
FloorAmt(total, ip) == [k \in Categories |-> IntPart(RawAmtNum(total, ip, k), AmtDen)]

\* Line 93: amt_raw - amt_int, numerators over AmtDen.
AmtRemainder(total, ip) == [k \in Categories |-> FracPart(RawAmtNum(total, ip, k), AmtDen)]

\* total * p / 100 is a float exactly when 25 divides its numerator (class 0);
\* otherwise it is rounded, the same way for the same numerator.
AmtClass(total, ip) ==
    [k \in Categories |->
        IF RawAmtNum(total, ip, k) % 25 = 0 THEN 0 ELSE RawAmtNum(total, ip, k)]

\* Mutant of TotalAllocated: total_allocated = amt_int in place of +=.
TotalAllocatedLast(ia) == ia[8]

\* Lines 85 and 91: total_allocated after the loop.
TotalAllocated(ia) == SumValues(ia)

\* Python's round() of num/den: to the nearest integer, halves to the even one.
RoundHalfEven(num, den) ==
    LET q == num \div den
        r == num - q * den
    IN  IF 2 * r < den THEN q
        ELSE IF 2 * r > den THEN q + 1
        ELSE IF q % 2 = 0 THEN q ELSE q + 1

\* Line 96: int(round(total_expense - total_allocated)).
RemainingBdt(total, allocated) == RoundHalfEven(total - allocated * Unit, Unit)

\* Lines 65-80: the integer percentages the weights w can yield.
PctOutcomes(w) ==
    LET ip == FloorPct(w)
    IN  { [k \in Categories |-> ip[k] + inc[k]] :
            inc \in Increments(PctRemainder(w), PctClass(w), Missing(ip)) }

\* Lines 82-101: the integer amounts the percentages ip can yield.
AmtOutcomes(total, ip) ==
    LET ia == FloorAmt(total, ip)
    IN  { [k \in Categories |-> ia[k] + inc[k]] :
            inc \in Increments(AmtRemainder(total, ip), AmtClass(total, ip),
                               RemainingBdt(total, TotalAllocated(ia))) }

\* ------------------------------------------------------------------- state
VARIABLES total_expense, location, family_size, has_kids, own_home,
          home_support_staff, mode, base, weights, int_percentages, missing,
          int_amounts, remaining_bdt, pc

vars == << total_expense, location, family_size, has_kids, own_home,
           home_support_staff, mode, base, weights, int_percentages, missing,
           int_amounts, remaining_bdt, pc >>

inputs == << total_expense, location, family_size, has_kids, own_home,
             home_support_staff, mode, base >>

Zero == [k \in Categories |-> 0]

Locations ==
    { <<"d","h","a","k","a">>,
      <<" ","M","e","t","r","o"," ">>,
      <<"o","t","h","e","r","_","a","r","e","a">>,
      <<"d","h","a","k","a"," ","c","i","t","y">> }

Modes == {"balanced", "conservative", "comfortable", "unknown_value", "Conservative"}

\* The totals tried: every multiple of 1/Unit up to MaxTotalUnits/Unit, and
\* the whole totals 20, 50 and 600000.
Totals == (0..MaxTotalUnits) \cup {20 * Unit, 50 * Unit, 600000 * Unit}

\* The state at entry to compute_allocation, line 16 executed.
Entry ==
    /\ location \in Locations
    /\ family_size \in 1..MaxFamily
    /\ has_kids \in BOOLEAN
    /\ own_home \in BOOLEAN
    /\ home_support_staff \in BOOLEAN
    /\ mode \in Modes
    /\ weights = base
    /\ int_percentages = Zero
    /\ missing = 0
    /\ int_amounts = Zero
    /\ remaining_bdt = 0
    /\ pc = "start"

Init ==
    /\ total_expense \in Totals
    /\ base = BaseWeights
    /\ Entry

\* The table of line 16 with one category's weight raised by d halves.
Raised(c, d) == [BaseWeights EXCEPT ![c] = @ + d * (WeightScale \div 2)]

InitPerturbed ==
    /\ total_expense = 50 * Unit
    /\ base \in { Raised(c, d) : c \in Categories, d \in 1..MaxDelta }
    /\ Entry

\* Lines 27-59.
AdjustWeights ==
    /\ pc = "start"
    /\ weights' = DerivedWeights(base, location, family_size, has_kids,
                                 own_home, home_support_staff, mode)
    /\ pc' = "weights"
    /\ UNCHANGED << inputs, int_percentages, missing, int_amounts, remaining_bdt >>

\* Lines 61-80.  A zero total_weight raises ZeroDivisionError at line 63.
ApportionPercentages ==
    /\ pc = "weights"
    /\ TotalWeight(weights) > 0
    /\ missing' = Missing(FloorPct(weights))
    /\ int_percentages' \in PctOutcomes(weights)
    /\ pc' = "percentages"
    /\ UNCHANGED << inputs, weights, int_amounts, remaining_bdt >>

\* Lines 82-103.
ApportionAmounts ==
    /\ pc = "percentages"
    /\ remaining_bdt' =
          RemainingBdt(total_expense, TotalAllocated(FloorAmt(total_expense, int_percentages)))
    /\ int_amounts' \in AmtOutcomes(total_expense, int_percentages)
    /\ pc' = "done"
    /\ UNCHANGED << inputs, weights, int_percentages, missing >>

Next == AdjustWeights \/ ApportionPercentages \/ ApportionAmounts

Spec == Init /\ [][Next]_vars

SpecPerturbed == InitPerturbed /\ [][Next]_vars

\* ------------------------------------------------------------------ claims
Returned == pc = "done"

Apportioned == pc \in {"percentages", "done"}

\* C1: the integer percentages compute_allocation returns sum to exactly 100.
C1_PercentagesSumTo100 ==
    Apportioned => SumValues(int_percentages) = 100

\* C1's case: points were missing after the floors and have been distributed.
C1_Witness ==
    Returned /\ missing > 0 /\ SumValues(int_percentages) = 100

\* C2: the integer amounts returned sum to exactly round(total_expense),
\* Python's round, also for totals ending in .5.
C2_AmountsSumToRoundedTotal ==
    Returned => SumValues(int_amounts) = RoundHalfEven(total_expense, Unit)

\* C3: without kids the Education weight, percentage and amount are all 0.
C3_NoKidsNoEducation ==
    ~has_kids =>
        /\ pc # "start" => weights[Education] = 0
        /\ int_percentages[Education] = 0
        /\ int_amounts[Education] = 0

\* C3's case: no kids, and both distributions have handed out extra units.
C3_Witness ==
    Returned /\ ~has_kids /\ missing > 0 /\ remaining_bdt > 0

\* Two categories whose remainders are equal as floats.
FloatTie(rem, cls, a, b) == a # b /\ rem[a] = rem[b] /\ cls[a] = cls[b]

\* a received an extra percentage point and b, tied with it, did not.
PctTieSplit(a, b) ==
    /\ Apportioned /\ missing > 0
    /\ FloatTie(PctRemainder(weights), PctClass(weights), a, b)
    /\ int_percentages[a] = FloorPct(weights)[a] + 1
    /\ int_percentages[b] = FloorPct(weights)[b]

\* a received an extra currency unit and b, tied with it, did not.
AmtTieSplit(a, b) ==
    /\ Returned /\ remaining_bdt > 0
    /\ FloatTie(AmtRemainder(total_expense, int_percentages),
                AmtClass(total_expense, int_percentages), a, b)
    /\ int_amounts[a] = FloorAmt(total_expense, int_percentages)[a] + 1
    /\ int_amounts[b] = FloorAmt(total_expense, int_percentages)[b]

\* C4: in both apportionments, among categories with equal remainders of
\* which only some receive a +1, the extra unit goes to the one declared first.
C4_TieToFirstDeclared ==
    \A a, b \in Categories : PctTieSplit(a, b) \/ AmtTieSplit(a, b) => a < b

\* C5: the total_weight computed after the weight derivation is strictly
\* positive, so line 63 never divides by zero.
C5_TotalWeightPositive ==
    pc # "start" => TotalWeight(weights) > 0

\* C5's case: a weight has been zeroed and the total is still positive.
C5_Witness ==
    pc = "weights" /\ weights[Education] = 0 /\ TotalWeight(weights) > 0

\* The weights compute_allocation derives for the state's profile under mode m.
WeightsUnder(b, m) ==
    DerivedWeights(b, location, family_size, has_kids, own_home, home_support_staff, m)

\* C6: a mode other than 'conservative' and 'comfortable' yields the weights,
\* percentages and amounts of mode='balanced'.
C6_UnknownModeIsBalanced ==
    mode \notin {"conservative", "comfortable"} =>
        /\ pc # "start" => weights = WeightsUnder(base, "balanced")
        /\ Apportioned => int_percentages \in PctOutcomes(WeightsUnder(base, "balanced"))
        /\ Returned => int_amounts \in AmtOutcomes(total_expense, int_percentages)

\* C6's case: an unrecognised mode string, the allocation returned.
C6_Witness ==
    Returned /\ mode \in {"unknown_value", "Conservative"} /\ total_expense > 0

\* C7: raising one category's base weight lowers that category's percentage
\* by at most 1 from the run on the unraised table.
C7_MonotonicStable ==
    Apportioned =>
        \A c \in Categories :
            base[c] > BaseWeights[c] =>
                \A p0 \in PctOutcomes(WeightsUnder(BaseWeights, mode)) :
                    int_percentages[c] >= p0[c] - 1

\* C7's case: a raised base weight, the category's percentage moved.
C7_Witness ==
    /\ Apportioned
    /\ \E c \in Categories :
          /\ base[c] > BaseWeights[c]
          /\ \E p0 \in PctOutcomes(WeightsUnder(BaseWeights, mode)) :
                int_percentages[c] > p0[c]

\* The multipliers (in hundredths) that steps 2-6 of the weight derivation
\* prescribe for category k, in the order of the steps.
Prescribed(k) ==
    LET metro == IsMetro(location)
        extra == IF family_size > 2 THEN family_size - 2 ELSE 0
        one(cond, num) == IF cond THEN <<num>> ELSE <<>>
    IN  CASE k = Food ->
                one(metro, 105) \o one(extra > 0, 100 + 5 * extra)
                \o one(mode = "conservative", 108) \o one(mode = "comfortable", 105)
          [] k = Accommodation ->
                one(metro, 120) \o one(~metro, 90) \o one(own_home, 60)
          [] k = PhoneInternet -> one(metro, 105)
          [] k = HomeSupport ->
                one(metro, 110) \o one(own_home, 105) \o one(~home_support_staff, 40)
                \o one(mode = "conservative", 70) \o one(mode = "comfortable", 120)
          [] k = Education -> one(extra > 0 /\ has_kids, 100 + 4 * extra)
          [] k = Festival ->
                one(mode = "conservative", 60) \o one(mode = "comfortable", 130)
          [] OTHER -> <<>>

RECURSIVE Product(_, _)
\* w times each multiplier of ms in turn.
Product(w, ms) == IF ms = <<>> THEN w ELSE Product(Times(w, Head(ms)), Tail(ms))

RECURSIVE WholeProducts(_, _)
\* Every product of Product(w, ms) is a whole number at WeightScale.
WholeProducts(w, ms) ==
    \/ ms = <<>>
    \/ (w * Head(ms)) % 100 = 0 /\ WholeProducts(Times(w, Head(ms)), Tail(ms))

\* C8: every derived weight is its base constant times exactly the prescribed
\* multipliers: metro and own_home give Accommodation x1.20 x0.60 = x0.72,
\* non-metro gives it x0.90, and a family of at most 2 leaves Food and
\* Education without a family-size multiplier.
C8_DerivedWeights ==
    pc # "start" =>
        /\ \A k \in Categories :
              LET b == IF k = Education /\ ~has_kids THEN 0 ELSE base[k]
              IN  /\ WholeProducts(b, Prescribed(k))
                  /\ weights[k] = Product(b, Prescribed(k))
        /\ IsMetro(location) /\ own_home => 100 * weights[Accommodation] = 72 * base[Accommodation]
        /\ ~IsMetro(location) /\ ~own_home => 100 * weights[Accommodation] = 90 * base[Accommodation]

\* C8's case: a metro owner with a family above 2 and kids.
C8_Witness ==
    /\ pc = "weights" /\ IsMetro(location) /\ own_home /\ family_size > 2 /\ has_kids
    /\ 100 * weights[Accommodation] = 72 * base[Accommodation]

\* C9: the deficit 100 - sum(floors) lies in 0..7, exactly that many categories
\* receive +1, and every percentage is its floor or its floor plus 1.
C9_PercentageDeficit ==
    Apportioned =>
        /\ missing = Missing(FloorPct(weights))
        /\ missing \in 0..7
        /\ Cardinality({k \in Categories : int_percentages[k] = FloorPct(weights)[k] + 1})
              = missing
        /\ \A k \in Categories :
              int_percentages[k] \in {FloorPct(weights)[k], FloorPct(weights)[k] + 1}

\* C9's case: a deficit of several points has been distributed.
C9_Witness ==
    Apportioned /\ missing >= 3

\* C10: remaining_bdt lies in 0..8, so the loop of lines 99-101 stays inside
\* the 8 entries, and every amount is its floor or its floor plus 1.
C10_RemainingInRange ==
    Apportioned =>
        LET floors == FloorAmt(total_expense, int_percentages)
            r == RemainingBdt(total_expense, TotalAllocated(floors))
        IN  /\ r \in 0..8
            /\ Returned =>
                  /\ remaining_bdt = r
                  /\ \A k \in Categories : int_amounts[k] \in {floors[k], floors[k] + 1}

\* C10's case: a non-integral total whose leftover has been distributed.
C10_Witness ==
    Returned /\ total_expense % Unit # 0 /\ remaining_bdt >= 2

====
